---- MODULE Spec2Model ----
(***************************************************************************)
(* Model of tvb.adapters.exporters.abcexporter.ABCExporter: the capability *)
(* filter (accepts), the ensemble resolver (_get_all_data_types_arr), the  *)
(* paired-ensemble linker and manifest loop (prepare_datatypes_for_export) *)
(* and the reference walk (gather_datatypes_for_copy).                     *)
(*                                                                         *)
(* Entities are named by strings; Python's None is the string "None".     *)
(* A Python call either returns or raises: every handler is an operator    *)
(* yielding a record whose exc field is "none" or the exception raised.    *)
(***************************************************************************)
EXTENDS Integers, Sequences, FiniteSets, TLC

\* ---------------------------------------------------------------- bounds
\* members of each of the two paired ensembles (time series / measures)
GroupSize == 2
\* interpreter recursion limit, scaled down
RecursionLimit == 4

\* ------------------------------------------------------ entities, classes
Null == "None"
NoAttr == "<no attribute>"
NoExc == "none"

TS(i) == "TS" \o ToString(i - 1)
M(i) == "measure" \o ToString(i - 1)
TimeSeriesSet == {TS(i) : i \in 1..GroupSize}
MeasureSet == {M(i) : i \in 1..GroupSize}
\* two stand-alone records, used for the reference graph and the type checks
Datatypes == TimeSeriesSet \cup MeasureSet \cup {"A", "B"}
\* time-series ensemble, measure ensemble, and a degenerate (empty) ensemble
Groups == {"TSG", "MG", "EG"}

EXCLUDED_DATATYPES ==
    {"Cortex", "CortexActivity", "CapEEGActivity", "Cap", "ValueWrapper", "SpatioTermporalMask"}

\* Python classes of the entities and their base class (single inheritance)
Classes ==
    {"object", "DataType", "DataTypeGroup", "TimeSeriesIndex", "TimeSeriesRegionIndex",
     "DatatypeMeasureIndex", "ValueWrapperIndex"}
BaseOf(c) ==
    CASE c = "TimeSeriesRegionIndex" -> "TimeSeriesIndex"
      [] c \in {"TimeSeriesIndex", "DatatypeMeasureIndex", "ValueWrapperIndex", "DataTypeGroup"} -> "DataType"
      [] OTHER -> "object"

RECURSIVE IsSubclass(_, _)
IsSubclass(c, s) ==
    IF c = s THEN TRUE
    ELSE IF c = "object" THEN FALSE
    ELSE IsSubclass(BaseOf(c), s)

\* the (class, type column) pairs a stored record may carry
TypeChoices ==
    { [cls |-> "TimeSeriesRegionIndex", type |-> "TimeSeriesRegion"],
      [cls |-> "TimeSeriesIndex", type |-> "Cortex"],
      [cls |-> "ValueWrapperIndex", type |-> "ValueWrapper"],
      [cls |-> "object", type |-> NoAttr] }

\* exporter variants: get_supported_types() and skip_group_datatypes()
Exporters ==
    { [supported |-> s, skip |-> k] :
        s \in {<<>>, <<"DataType">>, <<"TimeSeriesIndex">>, <<"DatatypeMeasureIndex", "TimeSeriesRegionIndex">>},
        k \in BOOLEAN }

VARIABLES
    tsType,            \* class and type column shared by every member of the time-series ensemble
    aType,             \* class and type column of the stand-alone record A
    emptyMembers,      \* what the member query yields for the degenerate group: an empty list or None
    tsGroupOfOpGroup,  \* time-series group the store finds for the sweep's operation group, or None
    measureGroupOfTs,  \* measure group the store finds for a time series of the sweep, or None
    fk_from_operation, \* producing operation of every record
    vmRefs,            \* shape of the view-model reference list of an operation
    references,        \* reference fields (gids or None) held in every record's file
    accepted,          \* last call of accepts: [data, exporter, exc, val]
    flattened,         \* last call of _get_all_data_types_arr: [data, exc, val]
    prepared,          \* last call of prepare_datatypes_for_export
    gathered           \* last call of gather_datatypes_for_copy

store == <<tsType, aType, emptyMembers, tsGroupOfOpGroup, measureGroupOfTs,
           fk_from_operation, vmRefs, references>>
vars == <<store, accepted, flattened, prepared, gathered>>

\* ------------------------------------------------------------ the store
\* gid column of a stored entity
Gid(e) == "gid:" \o e

\* load_entity_by_gid: the record with that gid; NotFound for an unknown gid
LoadEntityByGid(gid) ==
    IF \E e \in Datatypes : Gid(e) = gid
    THEN [exc |-> NoExc, val |-> CHOOSE e \in Datatypes : Gid(e) = gid]
    ELSE [exc |-> "NotFound", val |-> Null]

ClassOf(e) ==
    IF e \in Groups THEN "DataTypeGroup"
    ELSE IF e \in TimeSeriesSet THEN tsType.cls
    ELSE IF e \in MeasureSet THEN "DatatypeMeasureIndex"
    ELSE IF e = "A" THEN aType.cls
    ELSE IF e = "B" THEN "TimeSeriesIndex"
    ELSE "object"

\* the `type` attribute of an entity, NoAttr when hasattr(e, "type") is false
TypeOf(e) ==
    IF e \in Groups THEN "DataTypeGroup"
    ELSE IF e \in TimeSeriesSet THEN tsType.type
    ELSE IF e \in MeasureSet THEN "DatatypeMeasure"
    ELSE IF e = "A" THEN aType.type
    ELSE IF e = "B" THEN "TimeSeries"
    ELSE NoAttr

\* ProjectService.get_datatypes_from_datatype_group: the member rows (their gids)
\* in stored order, wrapped as [none, rows] because the query may yield None
GetDatatypesFromDatatypeGroup(g) ==
    CASE g = "TSG" -> [none |-> FALSE, rows |-> [i \in 1..GroupSize |-> Gid(TS(i))]]
      [] g = "MG" -> [none |-> FALSE, rows |-> [i \in 1..GroupSize |-> Gid(M(i))]]
      [] OTHER -> emptyMembers

\* hasattr(e, 'fk_source_gid'): only measure records carry the source reference
HasSourceGid(e) == e \in MeasureSet

\* fk_source_gid of measure i: the gid of time series i
FkSourceGid(e) == Gid(TS(CHOOSE i \in 1..GroupSize : M(i) = e))

\* ts.parent_operation.fk_operation_group: the sweep's operation group for the
\* members of the time-series ensemble, None for a record outside any sweep
FkOperationGroup(ts) == IF ts \in TimeSeriesSet THEN "OG1" ELSE Null

\* dao.get_datatypegroup_by_op_group_id
GetDatatypegroupByOpGroupId(og) == IF og = "OG1" THEN tsGroupOfOpGroup ELSE Null

\* dao.get_datatype_measure_group_from_ts_from_pse
GetDatatypeMeasureGroupFromTsFromPse(gid) ==
    IF \E ts \in TimeSeriesSet : Gid(ts) = gid THEN measureGroupOfTs ELSE Null

\* os.path.dirname
Dirname(path) == path.dir

\* h5.path_for_stored_index: <operation folder>/<gid>.h5
PathForStoredIndex(dt) == [dir |-> fk_from_operation[dt], file |-> Gid(dt)]

\* h5.determine_filepath
DetermineFilepath(gid, base_dir) == [dir |-> base_dir, file |-> gid]

\* view_model_gid of dao.get_operation_by_id(op)
ViewModelGid(op) == "vm:" \o ToString(op)

\* first list of h5.gather_references_of_view_model(gid, base_dir, only_view_models=True):
\* the view-model file itself, then the files of the view models it references
GatherReferencesOfViewModel(gid, base_dir) ==
    LET own == DetermineFilepath(gid, base_dir)
        sub == DetermineFilepath(gid \o "/sub", base_dir)
    IN  CASE vmRefs = "own" -> <<own>>
          [] vmRefs = "nested" -> <<own, sub>>
          [] OTHER -> <<own, sub, sub>>

\* H5File.gather_references of the file of a record: its gid-valued fields
GatherReferencesOfFile(dt) == references[dt]

\* a dict as a function over its keys
EmptyDict == [k \in {} |-> <<>>]
DictSet(d, k, v) == [x \in (DOMAIN d) \cup {k} |-> IF x = k THEN v ELSE d[x]]

\* ------------------------------------------------------------- handlers
is_data_a_group(data) == ClassOf(data) = "DataTypeGroup"

skip_group_datatypes(exporter) == exporter.skip

\* variant: the skip_group_datatypes() test is left out
EffectiveIgnoringSkip(exporter, data) ==
    IF is_data_a_group(data)
    THEN LET data_types == GetDatatypesFromDatatypeGroup(data)
         IN  IF ~data_types.none /\ Len(data_types.rows) > 0
             THEN LoadEntityByGid(data_types.rows[1])
             ELSE [exc |-> NoExc, val |-> Null]
    ELSE [exc |-> NoExc, val |-> data]

_get_effective_data_type(exporter, data) ==
    IF is_data_a_group(data)
    THEN IF skip_group_datatypes(exporter)
         THEN [exc |-> NoExc, val |-> Null]
         ELSE LET data_types == GetDatatypesFromDatatypeGroup(data)
              IN  IF ~data_types.none /\ Len(data_types.rows) > 0
                  THEN LoadEntityByGid(data_types.rows[1])
                  ELSE [exc |-> NoExc, val |-> Null]
    ELSE [exc |-> NoExc, val |-> data]

RECURSIVE AnySupported(_, _, _)
\* the for loop over get_supported_types(): true at the first isinstance hit
AnySupported(supported, i, effective_data_type) ==
    IF i > Len(supported) THEN FALSE
    ELSE IF IsSubclass(ClassOf(effective_data_type), supported[i]) THEN TRUE
    ELSE AnySupported(supported, i + 1, effective_data_type)

\* variant: the supported types are consulted before the global exclusions
AcceptsSupportedFirst(exporter, data) ==
    LET eff == _get_effective_data_type(exporter, data)
        effective_data_type == eff.val
    IN  IF eff.exc # NoExc THEN [exc |-> eff.exc, val |-> FALSE]
        ELSE IF effective_data_type = Null THEN [exc |-> NoExc, val |-> FALSE]
        ELSE IF AnySupported(exporter.supported, 1, effective_data_type)
             THEN [exc |-> NoExc, val |-> TRUE]
        ELSE [exc |-> NoExc, val |-> FALSE]

accepts(exporter, data) ==
    LET eff == _get_effective_data_type(exporter, data)
        effective_data_type == eff.val
    IN  IF eff.exc # NoExc THEN [exc |-> eff.exc, val |-> FALSE]
        ELSE IF effective_data_type = Null THEN [exc |-> NoExc, val |-> FALSE]
        ELSE IF TypeOf(effective_data_type) # NoAttr
                /\ TypeOf(effective_data_type) \in EXCLUDED_DATATYPES
             THEN [exc |-> NoExc, val |-> FALSE]
        ELSE [exc |-> NoExc, val |-> AnySupported(exporter.supported, 1, effective_data_type)]

RECURSIVE LoadAllPrepending(_, _, _)
\* variant: each loaded member is put in front of result instead of behind it
LoadAllPrepending(rows, i, result) ==
    IF i > Len(rows) THEN [exc |-> NoExc, val |-> result]
    ELSE LET entity == LoadEntityByGid(rows[i])
         IN  IF entity.exc # NoExc THEN [exc |-> entity.exc, val |-> result]
             ELSE LoadAllPrepending(rows, i + 1, <<entity.val>> \o result)

RECURSIVE LoadAll(_, _, _)
\* the for loop of _get_all_data_types_arr: load each member, append it to result
LoadAll(rows, i, result) ==
    IF i > Len(rows) THEN [exc |-> NoExc, val |-> result]
    ELSE LET entity == LoadEntityByGid(rows[i])
         IN  IF entity.exc # NoExc THEN [exc |-> entity.exc, val |-> result]
             ELSE LoadAll(rows, i + 1, Append(result, entity.val))

_get_all_data_types_arr(data) ==
    IF is_data_a_group(data)
    THEN LET data_types == GetDatatypesFromDatatypeGroup(data)
         IN  IF ~data_types.none /\ Len(data_types.rows) > 0
             THEN LoadAll(data_types.rows, 1, <<>>)
             ELSE [exc |-> NoExc, val |-> <<>>]
    ELSE [exc |-> NoExc, val |-> <<data>>]

\* variant: the measure branch puts the paired ensemble behind the measures
LinkPairedMeasuresFirst(all_datatypes) ==
    LET first == all_datatypes[1]
    IN  IF first # Null /\ HasSourceGid(first)
        THEN LET ts == LoadEntityByGid(FkSourceGid(first))
             IN  IF ts.exc # NoExc THEN [exc |-> ts.exc, val |-> all_datatypes]
                 ELSE LET data_2 == GetDatatypegroupByOpGroupId(FkOperationGroup(ts.val))
                          all_datatypes_2 == _get_all_data_types_arr(data_2)
                      IN  IF all_datatypes_2.exc # NoExc
                          THEN [exc |-> all_datatypes_2.exc, val |-> all_datatypes]
                          ELSE [exc |-> NoExc, val |-> all_datatypes \o all_datatypes_2.val]
        ELSE IF first = Null THEN [exc |-> "AttributeError", val |-> all_datatypes]
        ELSE LET data_2 == GetDatatypeMeasureGroupFromTsFromPse(Gid(first))
                 all_datatypes_2 == _get_all_data_types_arr(data_2)
             IN  IF all_datatypes_2.exc # NoExc
                 THEN [exc |-> all_datatypes_2.exc, val |-> all_datatypes]
                 ELSE [exc |-> NoExc, val |-> all_datatypes \o all_datatypes_2.val]

\* variant: the primary branch puts the paired ensemble in front of the primaries
LinkPairedAlwaysInFront(all_datatypes) ==
    LET first == all_datatypes[1]
    IN  IF first # Null /\ HasSourceGid(first)
        THEN LET ts == LoadEntityByGid(FkSourceGid(first))
             IN  IF ts.exc # NoExc THEN [exc |-> ts.exc, val |-> all_datatypes]
                 ELSE LET data_2 == GetDatatypegroupByOpGroupId(FkOperationGroup(ts.val))
                          all_datatypes_2 == _get_all_data_types_arr(data_2)
                      IN  IF all_datatypes_2.exc # NoExc
                          THEN [exc |-> all_datatypes_2.exc, val |-> all_datatypes]
                          ELSE [exc |-> NoExc, val |-> all_datatypes_2.val \o all_datatypes]
        ELSE IF first = Null THEN [exc |-> "AttributeError", val |-> all_datatypes]
        ELSE LET data_2 == GetDatatypeMeasureGroupFromTsFromPse(Gid(first))
                 all_datatypes_2 == _get_all_data_types_arr(data_2)
             IN  IF all_datatypes_2.exc # NoExc
                 THEN [exc |-> all_datatypes_2.exc, val |-> all_datatypes]
                 ELSE [exc |-> NoExc, val |-> all_datatypes_2.val \o all_datatypes]

\* lines 175-183: pair the flattened records with the other ensemble of the sweep
LinkPaired(all_datatypes) ==
    LET first == all_datatypes[1]
    IN  IF first # Null /\ HasSourceGid(first)
        THEN LET ts == LoadEntityByGid(FkSourceGid(first))
             IN  IF ts.exc # NoExc THEN [exc |-> ts.exc, val |-> all_datatypes]
                 ELSE LET data_2 == GetDatatypegroupByOpGroupId(FkOperationGroup(ts.val))
                          all_datatypes_2 == _get_all_data_types_arr(data_2)
                      IN  IF all_datatypes_2.exc # NoExc
                          THEN [exc |-> all_datatypes_2.exc, val |-> all_datatypes]
                          ELSE [exc |-> NoExc, val |-> all_datatypes_2.val \o all_datatypes]
        ELSE IF first = Null THEN [exc |-> "AttributeError", val |-> all_datatypes]
        ELSE LET data_2 == GetDatatypeMeasureGroupFromTsFromPse(Gid(first))
                 all_datatypes_2 == _get_all_data_types_arr(data_2)
             IN  IF all_datatypes_2.exc # NoExc
                 THEN [exc |-> all_datatypes_2.exc, val |-> all_datatypes]
                 ELSE [exc |-> NoExc, val |-> all_datatypes \o all_datatypes_2.val]

\* lines 190-200: one iteration of the manifest loop on record dt
ManifestStep(st, dt) ==
    IF dt = Null THEN [st EXCEPT !.exc = "AttributeError"]
    ELSE LET h5_path == PathForStoredIndex(dt)
             op_folder == Dirname(h5_path)
             op == fk_from_operation[dt]
             vms == GatherReferencesOfViewModel(ViewModelGid(op), Dirname(h5_path))
             vm_path == DetermineFilepath(ViewModelGid(op), op_folder)
         IN  [st EXCEPT !.op_file_dict = DictSet(st.op_file_dict, op_folder, <<h5_path>> \o vms),
                        !.io = st.io \o <<h5_path, vm_path>>]

RECURSIVE ManifestLoop(_, _, _)
\* line 189: for dt in all_datatypes
ManifestLoop(all_datatypes, i, st) ==
    IF i > Len(all_datatypes) \/ st.exc # NoExc THEN st
    ELSE ManifestLoop(all_datatypes, i + 1, ManifestStep(st, all_datatypes[i]))

\* The outcome record of prepare_datatypes_for_export:
\*   exc            exception raised, or "none" when the call returned
\*   all_datatypes  the list as it stands after linking (line 185), <<>> before
\*   linked         whether the call got as far as line 185
\*   op_file_dict   the folder -> files dict built so far
\*   io             storage files touched (metadata edits), in order
Raised(exc) ==
    [exc |-> exc, all_datatypes |-> <<>>, linked |-> FALSE, op_file_dict |-> EmptyDict, io |-> <<>>]

prepare_datatypes_for_export(data) ==
    LET all_datatypes == _get_all_data_types_arr(data)
    IN  IF all_datatypes.exc # NoExc THEN Raised(all_datatypes.exc)
        ELSE IF Len(all_datatypes.val) = 0 THEN Raised("IndexError")
        ELSE LET linked == LinkPaired(all_datatypes.val)
             IN  IF linked.exc # NoExc THEN Raised(linked.exc)
                 ELSE IF Len(linked.val) = 0
                      THEN [Raised("ExportException") EXCEPT !.linked = TRUE]
                 ELSE ManifestLoop(linked.val, 1,
                                   [exc |-> NoExc, all_datatypes |-> linked.val, linked |-> TRUE,
                                    op_file_dict |-> EmptyDict, io |-> <<>>])

\* no path twice in a list
NoDuplicates(seq) == \A i, j \in 1..Len(seq) : seq[i] = seq[j] => i = j
Contains(seq, x) == \E i \in 1..Len(seq) : seq[i] = x

RECURSIVE gather_datatypes_for_copy(_, _, _)
RECURSIVE GatherSubRefs(_, _, _, _)
\* The state threaded through the walk: exc, the caller's dt_path_list (mutated in
\* place) and, per record, how many times its file was opened.
\* depth is the number of active frames of gather_datatypes_for_copy.
gather_datatypes_for_copy(data, st, depth) ==
    IF depth > RecursionLimit THEN [st EXCEPT !.exc = "RecursionError"]
    ELSE IF data = Null THEN [st EXCEPT !.exc = "AttributeError"]
    ELSE LET data_path == PathForStoredIndex(data)
             st1 == IF ~Contains(st.dt_path_list, data_path)
                    THEN [st EXCEPT !.dt_path_list = Append(@, data_path)]
                    ELSE st
             st2 == [st1 EXCEPT !.opened[data] = @ + 1]
         IN  GatherSubRefs(GatherReferencesOfFile(data), 1, st2, depth)

\* lines 166-169: for _, ref_gid in sub_dt_refs
GatherSubRefs(sub_dt_refs, i, st, depth) ==
    IF i > Len(sub_dt_refs) \/ st.exc # NoExc THEN st
    ELSE LET ref_gid == sub_dt_refs[i]
         IN  IF ref_gid = Null THEN GatherSubRefs(sub_dt_refs, i + 1, st, depth)
             ELSE LET dt == LoadEntityByGid(ref_gid)
                  IN  IF dt.exc # NoExc THEN [st EXCEPT !.exc = dt.exc]
                      ELSE GatherSubRefs(sub_dt_refs, i + 1,
                                         gather_datatypes_for_copy(dt.val, st, depth + 1), depth)

\* ------------------------------------------------------------- behaviour
NotCalled == [data |-> Null, exporter |-> [supported |-> <<>>, skip |-> FALSE], exc |-> NoExc, val |-> FALSE]
NotFlattened == [data |-> Null, exc |-> NoExc, val |-> <<>>]
NotPrepared == [data |-> Null, out |-> Raised(NoExc)]
NotGathered == [data |-> Null, given |-> <<>>, exc |-> NoExc, dt_path_list |-> <<>>,
                opened |-> [d \in Datatypes |-> 0]]

\* every record produced by an operation of its own
OwnOperation ==
    [d \in Datatypes |->
        IF d \in TimeSeriesSet THEN CHOOSE i \in 1..GroupSize : TS(i) = d
        ELSE IF d \in MeasureSet THEN GroupSize + (CHOOSE i \in 1..GroupSize : M(i) = d)
        ELSE IF d = "A" THEN 2 * GroupSize + 1
        ELSE 2 * GroupSize + 2]
\* the producing operations the store may hold: one operation per record; one
\* operation (several monitors) for the whole time-series ensemble; each measure
\* stored next to its time series
OperationAssignments ==
    { OwnOperation,
      [d \in Datatypes |-> IF d \in TimeSeriesSet THEN 1 ELSE OwnOperation[d]],
      [d \in Datatypes |-> IF d \in MeasureSet THEN OwnOperation[d] - GroupSize ELSE OwnOperation[d]] }

NoReferences == [d \in Datatypes |-> <<>>]
\* the reference graphs the stored files may hold
ReferenceGraphs ==
    { NoReferences,
      \* every measure points at its time series; A points at B through two fields
      [d \in Datatypes |->
          IF d \in MeasureSet THEN <<FkSourceGid(d)>>
          ELSE IF d = "A" THEN <<Gid("B"), Null, Gid("B")>>
          ELSE <<>>],
      \* A and B point at each other
      [d \in Datatypes |->
          IF d = "A" THEN <<Gid("B")>> ELSE IF d = "B" THEN <<Gid("A")>> ELSE <<>>],
      \* A points at a record that is gone
      [d \in Datatypes |-> IF d = "A" THEN <<"gid:gone">> ELSE <<>>] }

DefaultType == [cls |-> "TimeSeriesRegionIndex", type |-> "TimeSeriesRegion"]
EmptyMemberChoices == {[none |-> FALSE, rows |-> <<>>], [none |-> TRUE, rows |-> <<>>]}

InitCalls ==
    /\ accepted = NotCalled
    /\ flattened = NotFlattened
    /\ prepared = NotPrepared
    /\ gathered = NotGathered

\* the stores the capability filter is checked on
InitFilter ==
    /\ tsType \in TypeChoices
    /\ aType \in TypeChoices
    /\ emptyMembers \in EmptyMemberChoices
    /\ tsGroupOfOpGroup = "TSG"
    /\ measureGroupOfTs = "MG"
    /\ fk_from_operation = OwnOperation
    /\ vmRefs = "own"
    /\ references = NoReferences
    /\ InitCalls

\* the stores the resolver, the linker and the manifest loop are checked on
Init ==
    /\ tsType = DefaultType
    /\ aType = DefaultType
    /\ emptyMembers \in EmptyMemberChoices
    /\ tsGroupOfOpGroup \in {"TSG", Null}
    /\ measureGroupOfTs \in {"MG", Null}
    /\ fk_from_operation \in OperationAssignments
    /\ vmRefs \in {"own", "nested", "repeated"}
    /\ references = NoReferences
    /\ InitCalls

\* the stores the reference walk is checked on
InitClosure ==
    /\ tsType = DefaultType
    /\ aType = DefaultType
    /\ emptyMembers = [none |-> FALSE, rows |-> <<>>]
    /\ tsGroupOfOpGroup = "TSG"
    /\ measureGroupOfTs = "MG"
    /\ fk_from_operation \in OperationAssignments
    /\ vmRefs = "own"
    /\ references \in ReferenceGraphs
    /\ InitCalls

Inputs == Datatypes \cup Groups \cup {Null}

Accepts ==
    \E exporter \in Exporters, data \in Inputs :
        /\ accepted' = [data |-> data, exporter |-> exporter,
                        exc |-> accepts(exporter, data).exc, val |-> accepts(exporter, data).val]
        /\ UNCHANGED <<store, flattened, prepared, gathered>>

Flatten ==
    \E data \in Inputs :
        /\ flattened' = [data |-> data, exc |-> _get_all_data_types_arr(data).exc,
                         val |-> _get_all_data_types_arr(data).val]
        /\ UNCHANGED <<store, accepted, prepared, gathered>>

Prepare ==
    \E data \in Datatypes \cup Groups :
        /\ prepared' = [data |-> data, out |-> prepare_datatypes_for_export(data)]
        /\ UNCHANGED <<store, accepted, flattened, gathered>>

\* the caller hands in a fresh list, or one that already holds the record's path
Gather ==
    \E data \in Datatypes, given \in {<<>>} \cup {<<PathForStoredIndex(d)>> : d \in {"A", "B"}} :
        /\ LET st == gather_datatypes_for_copy(
                         data, [exc |-> NoExc, dt_path_list |-> given,
                                opened |-> [d \in Datatypes |-> 0]], 1)
           IN  gathered' = [data |-> data, given |-> given, exc |-> st.exc,
                            dt_path_list |-> st.dt_path_list, opened |-> st.opened]
        /\ UNCHANGED <<store, accepted, flattened, prepared>>

\* export preparation: the resolver and prepare_datatypes_for_export
Next == Flatten \/ Prepare
Spec == Init /\ [][Next]_vars

\* the capability filter
NextFilter == Accepts
SpecFilter == InitFilter /\ [][NextFilter]_vars

\* the reference walk
NextClosure == Gather
SpecClosure == InitClosure /\ [][NextClosure]_vars

\* ------------------------------------------------------------ properties
\* what a record stands for in the store: the members of a group in stored
\* order, the record itself otherwise
StoredMembers(r) ==
    CASE r = "TSG" -> [i \in 1..GroupSize |-> TS(i)]
      [] r = "MG" -> [i \in 1..GroupSize |-> M(i)]
      [] r = "EG" -> <<>>
      [] OTHER -> <<r>>

\* C1: export of an empty group fails with ExportException, returns no
\* manifest and touches no file.
EmptyGroupRaisesExportException ==
    prepared.data = "EG" =>
        /\ prepared.out.exc = "ExportException"
        /\ prepared.out.op_file_dict = EmptyDict
        /\ prepared.out.io = <<>>

\* C2: on the two-record cycle A -> B -> A the walk started at A ends normally
\* and opens the file of A and the file of B exactly once each.
IsCycleAB == references["A"] = <<Gid("B")>> /\ references["B"] = <<Gid("A")>>
CycleVisitsEachOnce ==
    (gathered.data = "A" /\ IsCycleAB) =>
        /\ gathered.exc = NoExc
        /\ gathered.opened["A"] = 1
        /\ gathered.opened["B"] = 1

\* C3 as stated: prepare on one single measure record of a paired sweep yields
\* all the time series followed by all the measures.
SingleMeasureYieldsAllMeasures ==
    (prepared.data \in MeasureSet /\ tsGroupOfOpGroup = "TSG") =>
        /\ prepared.out.exc = NoExc
        /\ prepared.out.all_datatypes = StoredMembers("TSG") \o StoredMembers("MG")

\* C3 amended: prepare on one single measure record of a paired sweep yields
\* all the time series followed by that one measure only; all the measures
\* follow the time series when the measure group itself is passed.
SingleMeasureYieldsItselfOnly ==
    /\ (prepared.data \in MeasureSet /\ tsGroupOfOpGroup = "TSG") =>
            /\ prepared.out.exc = NoExc
            /\ prepared.out.all_datatypes = StoredMembers("TSG") \o <<prepared.data>>
    /\ (prepared.data = "MG" /\ tsGroupOfOpGroup = "TSG") =>
            /\ prepared.out.exc = NoExc
            /\ Len(prepared.out.all_datatypes) = 2 * GroupSize
            /\ \A i \in 1..GroupSize :
                   /\ prepared.out.all_datatypes[i] = TS(i)
                   /\ prepared.out.all_datatypes[GroupSize + i] = M(i)
SingleMeasurePrepared ==
    /\ prepared.data = M(1)
    /\ tsGroupOfOpGroup = "TSG"
    /\ prepared.out.exc = NoExc
    /\ Len(prepared.out.all_datatypes) = GroupSize + 1

\* C4: when the first flattened record carries a source reference the linked
\* list is the paired time-series ensemble followed by the flattened measures;
\* otherwise it is the flattened primaries followed by the derived measure
\* group; nothing is dropped, repeated or reordered inside either part.
LinkOrderDeterministic ==
    LET flat == StoredMembers(prepared.data)
    IN  (prepared.data # Null /\ flat # <<>>) =>
            /\ (HasSourceGid(flat[1]) /\ tsGroupOfOpGroup # Null) =>
                   /\ prepared.out.linked
                   /\ prepared.out.all_datatypes = StoredMembers(tsGroupOfOpGroup) \o flat
            /\ (flat[1] \in TimeSeriesSet /\ measureGroupOfTs # Null) =>
                   /\ prepared.out.linked
                   /\ prepared.out.all_datatypes = flat \o StoredMembers(measureGroupOfTs)
PrimaryEnsembleLinked ==
    /\ prepared.data = "TSG"
    /\ measureGroupOfTs = "MG"
    /\ prepared.out.exc = NoExc
    /\ Len(prepared.out.all_datatypes) = 2 * GroupSize

EffectiveRecord(data) == IF data \in Groups THEN StoredMembers(data) ELSE <<data>>
ExcludedNeverAccepted ==
    LET eff == EffectiveRecord(accepted.data)
    IN  (eff # <<>> /\ TypeOf(eff[1]) \in EXCLUDED_DATATYPES) =>
            (accepted.exc = NoExc /\ accepted.val = FALSE)
ExcludedSubtypeOfSupportedRejected ==
    /\ accepted.data = "TSG"
    /\ ~accepted.exporter.skip
    /\ TypeOf(TS(1)) = "Cortex"
    /\ AnySupported(accepted.exporter.supported, 1, TS(1))
    /\ accepted.val = FALSE

\* C7: for a group, accepts is false and does not raise when the group
\* is empty or the exporter skips groups; otherwise it equals accepts on the
\* first stored member.
RepresentativeTypeRule ==
    accepted.data \in Groups =>
        /\ accepted.exc = NoExc
        /\ (StoredMembers(accepted.data) = <<>> \/ accepted.exporter.skip) => accepted.val = FALSE
        /\ (StoredMembers(accepted.data) # <<>> /\ ~accepted.exporter.skip) =>
               accepted.val = accepts(accepted.exporter, StoredMembers(accepted.data)[1]).val
GroupAcceptedThroughFirstMember ==
    /\ accepted.data = "TSG"
    /\ ~accepted.exporter.skip
    /\ accepted.val = TRUE

\* C8: flatten of a non-group record is the singleton of that record; flatten
\* of a group is its members, each once, in stored order; flatten of an empty
\* group is the empty sequence.
FlattenReturnsRepresentedRecords ==
    flattened.data # Null =>
        /\ flattened.exc = NoExc
        /\ flattened.data \in Datatypes => flattened.val = <<flattened.data>>
        /\ flattened.data \in Groups =>
               /\ Len(flattened.val) = Len(StoredMembers(flattened.data))
               /\ \A i \in 1..Len(flattened.val) : flattened.val[i] = StoredMembers(flattened.data)[i]
GroupFlattened ==
    /\ flattened.data = "MG"
    /\ Len(flattened.val) = GroupSize
    /\ flattened.val[1] = M(1)

\* C9: when prepare returns, every record of the combined list has its own
\* storage path and its operation's configuration file in the file list of its
\* folder, also when several records share a folder.
ManifestComplete ==
    (prepared.data # Null /\ prepared.out.exc = NoExc) =>
        \A i \in 1..Len(prepared.out.all_datatypes) :
            LET dt == prepared.out.all_datatypes[i]
                h5_path == PathForStoredIndex(dt)
                folder == Dirname(h5_path)
            IN  /\ folder \in DOMAIN prepared.out.op_file_dict
                /\ Contains(prepared.out.op_file_dict[folder], h5_path)
                /\ Contains(prepared.out.op_file_dict[folder],
                            DetermineFilepath(ViewModelGid(fk_from_operation[dt]), folder))

\* C10: neither the flattened nor the linked list holds a None entry; when
\* the paired lookup finds no group the linked list is the original records.
NoNullEntries ==
    /\ flattened.data # Null => ~Contains(flattened.val, Null)
    /\ prepared.out.linked =>
           /\ ~Contains(prepared.out.all_datatypes, Null)
           /\ (HasSourceGid(StoredMembers(prepared.data)[1]) /\ tsGroupOfOpGroup = Null) =>
                  prepared.out.all_datatypes = StoredMembers(prepared.data)

====
